---- MODULE Spec2Model ----
(***************************************************************************)
(* The debate graph of llm-parliament (backend/debate_graph.py) driven by  *)
(* the streaming endpoint (backend/main.py) and persisted through          *)
(* backend/storage.py.                                                     *)
(*                                                                         *)
(* One run = one call of send_message_stream.  The graph state is the      *)
(* DebateState (messages, round_count, next_speaker, config); node is the  *)
(* node the compiled graph executes next; pending holds the update event   *)
(* astream has produced and event_generator has not consumed yet.          *)
(*                                                                         *)
(* requests holds the concurrent requests of the storage specification     *)
(* (SpecStorage); gone_at is the number of node executions completed when  *)
(* the client disconnected (-1 while it is connected).                     *)
(***************************************************************************)
EXTENDS Integers, Sequences, FiniteSets, TLC

VARIABLES messages, round_count, next_speaker, config,
          node, pending, stored, events, status, trace,
          requests, gone_at

vars == <<messages, round_count, next_speaker, config,
          node, pending, stored, events, status, trace,
          requests, gone_at>>

(***************************************************************************)
(* Bounds of the model.                                                    *)
(***************************************************************************)
\* max_rounds is drawn from 0..MaxRoundsBound (the request model accepts any int).
MaxRoundsBound == 1
\* An agent message carries at most MaxFanout tool calls.
MaxFanout == 2
\* At most MaxToolBatches agent messages of one run carry tool calls.
MaxToolBatches == 2
\* At most MaxToolErrors tool invocations of one run report an error.
MaxToolErrors == 1

\* Longest log a run can build: the Human message, 2N+2 Moderator messages and
\* 2N+1 agent turns of at most two (call, results) batches each.  The node
\* guards stop at this length; it is never reached by the graph as written.
MaxLog == 1 + (2 * MaxRoundsBound + 2) + (2 * MaxRoundsBound + 1) * (2 * (1 + MaxFanout)) + 1

(***************************************************************************)
(* Messages (langchain_core.messages): type, name, tool_calls (the ids of  *)
(* the calls an AIMessage carries), tool_call_id (0: none), content.       *)
(***************************************************************************)
Last(s) == s[Len(s)]

HumanMessage == [type |-> "human", name |-> "None", tool_calls |-> <<>>,
                 tool_call_id |-> 0, content |-> "topic"]

AIMessage(name, calls) == [type |-> "ai", name |-> name, tool_calls |-> calls,
                           tool_call_id |-> 0, content |-> "text"]

ToolMessage(id, content) == [type |-> "tool", name |-> "search_web", tool_calls |-> <<>>,
                             tool_call_id |-> id, content |-> content]

\* Number of tool calls issued in the first i messages of the log: the
\* provider gives every call of a response a fresh id, modelled as the next
\* unused numbers.
RECURSIVE CallsUpTo(_, _)
CallsUpTo(msgs, i) ==
    IF i = 0 THEN 0 ELSE Len(msgs[i].tool_calls) + CallsUpTo(msgs, i - 1)

CallsIssued(msgs) == CallsUpTo(msgs, Len(msgs))

\* Number of agent messages of the log that carry tool calls.
ToolBatches(msgs) ==
    Cardinality({i \in DOMAIN msgs : msgs[i].type = "ai" /\ msgs[i].tool_calls # <<>>})

\* Number of tool results of the log that carry an error text.
ToolErrors(msgs) ==
    Cardinality({i \in DOMAIN msgs : msgs[i].type = "tool" /\ msgs[i].content = "err"})

(***************************************************************************)
(* moderator_node                                                          *)
(***************************************************************************)
\* Mutant: the opening test compares with the stored role "user" instead of the message type.
IsOpeningUserRole(msgs) == Len(msgs) = 1 /\ msgs[1].type = "user"

\* Case 1: only the user topic exists.
IsOpening(msgs) == Len(msgs) = 1 /\ msgs[1].type = "human"

\* Mutant: the closing test is strict.
MaxRoundsExceeded(rc, cfg) == rc > cfg.max_rounds

\* Case 2: current_round >= config["max_rounds"].
MaxRoundsReached(rc, cfg) == rc >= cfg.max_rounds

\* The backward scan of Case 3 for the agent who spoke (last message is a tool message).
\* Mutant: the backward scan from a tool result finds no speaker.
FoundSpeakerNever(msgs, i) == "Unknown"

RECURSIVE FoundSpeaker(_, _)
FoundSpeaker(msgs, i) ==
    IF i = 0 THEN "Unknown"
    ELSE IF msgs[i].type = "ai"
            /\ msgs[i].name \in {"Proponent", "Critic", "Government", "Opposition"}
         THEN msgs[i].name
         ELSE FoundSpeaker(msgs, i - 1)

\* Mutant: the sender is read off the last message even when it is a tool result.
last_speaker_name_no_scan(msgs) == Last(msgs).name

last_speaker_name(msgs) ==
    IF Last(msgs).type = "tool" THEN FoundSpeaker(msgs, Len(msgs))
    ELSE Last(msgs).name

\* Mutant: every agent turn counts as a round.
increment_round_any_agent(speaker) == IF speaker \in {"Proponent", "Critic"} THEN 1 ELSE 0

\* Mutant: increment_round is never set to 1.
increment_round_never(speaker) == 0

\* Mutant: the round is counted when the Proponent finishes, not the Critic.
increment_round_on_proponent(speaker) == IF speaker = "Proponent" THEN 1 ELSE 0

increment_round(speaker) == IF speaker = "Critic" THEN 1 ELSE 0

\* Mutant: the catch-all branch always gives the floor to the Proponent.
transition_next_speaker_pro(speaker, rc) ==
    IF speaker = "Proponent" THEN "con"
    ELSE IF speaker = "Critic" THEN "pro"
    ELSE "pro"

transition_next_speaker(speaker, rc) ==
    IF speaker = "Proponent" THEN "con"
    ELSE IF speaker = "Critic" THEN "pro"
    ELSE IF rc = 0 THEN "pro" ELSE "con"

moderator_branch(msgs, rc, cfg) ==
    IF IsOpening(msgs) THEN "opening"
    ELSE IF MaxRoundsReached(rc, cfg) THEN "closing"
    ELSE "transition"

\* The patch moderator_node returns; the closing patch has no round_count key.
\* The Moderator's model has no tools bound: its response carries no tool calls.
moderator_patch(msgs, rc, cfg) ==
    LET response == AIMessage("Moderator", <<>>) IN
    IF IsOpening(msgs)
    THEN [messages |-> <<response>>, next_speaker |-> "pro", round_count |-> 0]
    ELSE IF MaxRoundsReached(rc, cfg)
    THEN [messages |-> <<response>>, next_speaker |-> "finish"]
    ELSE [messages |-> <<response>>,
          next_speaker |-> transition_next_speaker(last_speaker_name(msgs), rc),
          round_count |-> rc + increment_round(last_speaker_name(msgs))]

(***************************************************************************)
(* pro_agent_node / con_agent_node: llm.bind_tools(tools) is unconditional *)
(* (config["enable_tools"] is never read), so the response may carry k     *)
(* tool calls whatever the configuration says.                             *)
(***************************************************************************)
FreshCalls(msgs, k) == [j \in 1..k |-> CallsIssued(msgs) + j]

\* Mutant: the agent hands the floor back itself.
agent_patch_sets_speaker(name, msgs, k) ==
    [messages |-> <<AIMessage(name, FreshCalls(msgs, k))>>, next_speaker |-> "moderator"]

agent_patch(name, msgs, k) == [messages |-> <<AIMessage(name, FreshCalls(msgs, k))>>]

\* The numbers of tool calls the generation call may put on the next response.
CallChoices(msgs) ==
    IF ToolBatches(msgs) < MaxToolBatches THEN 0..MaxFanout ELSE {0}

(***************************************************************************)
(* ToolNode: one ToolMessage per tool call of the latest AI message, in    *)
(* order; a failing tool yields its error text as the content.             *)
(***************************************************************************)
\* Mutant: only the first pending call is answered.
tool_patch_first_only(msgs, contents) ==
    [messages |-> <<ToolMessage(Last(msgs).tool_calls[1], contents[1])>>]

\* Mutant: a call whose tool reports an error gets no ToolMessage.
tool_patch_skip_errors(msgs, contents) ==
    LET calls == Last(msgs).tool_calls IN
    [messages |-> SelectSeq([j \in 1..Len(calls) |-> ToolMessage(calls[j], contents[j])],
                            LAMBDA m : m.content # "err")]

tool_patch(msgs, contents) ==
    LET calls == Last(msgs).tool_calls IN
    [messages |-> [j \in 1..Len(calls) |-> ToolMessage(calls[j], contents[j])]]

ErrCount(contents) == Cardinality({j \in DOMAIN contents : contents[j] = "err"})

\* The result texts the tools may return for the pending calls.
ResultChoices(msgs) ==
    {c \in [1..Len(Last(msgs).tool_calls) -> {"ok", "err"}] :
        ToolErrors(msgs) + ErrCount(c) <= MaxToolErrors}

(***************************************************************************)
(* router (conditional edge of moderator, pro_agent and con_agent)         *)
(***************************************************************************)
\* Mutant: an agent message without tool calls ends the run.
router_end_after_agent(msgs, ns) ==
    IF Last(msgs).tool_calls # <<>> THEN "tools"
    ELSE IF Last(msgs).name \in {"Proponent", "Critic"} THEN "END"
    ELSE IF ns = "finish" THEN "END"
    ELSE IF ns = "pro" THEN "pro_agent"
    ELSE IF ns = "con" THEN "con_agent"
    ELSE "moderator"

\* Mutant: the fallback of the next_speaker branch ends the run.
router_default_end(msgs, ns) ==
    IF Last(msgs).tool_calls # <<>> THEN "tools"
    ELSE IF Last(msgs).name \in {"Proponent", "Critic"} THEN "moderator"
    ELSE IF ns = "finish" THEN "END"
    ELSE IF ns = "pro" THEN "pro_agent"
    ELSE IF ns = "con" THEN "con_agent"
    ELSE "END"

\* Mutant: next_speaker is consulted before the sender of the last message.
router_speaker_first(msgs, ns) ==
    IF Last(msgs).tool_calls # <<>> THEN "tools"
    ELSE IF ns = "finish" THEN "END"
    ELSE IF ns = "pro" THEN "pro_agent"
    ELSE IF ns = "con" THEN "con_agent"
    ELSE "moderator"

router(msgs, ns) ==
    IF Last(msgs).tool_calls # <<>> THEN "tools"
    ELSE IF Last(msgs).name \in {"Proponent", "Critic"} THEN "moderator"
    ELSE IF ns = "finish" THEN "END"
    ELSE IF ns = "pro" THEN "pro_agent"
    ELSE IF ns = "con" THEN "con_agent"
    ELSE "moderator"

(***************************************************************************)
(* tool_router (conditional edge of tools)                                 *)
(***************************************************************************)
RECURSIVE CallerFrom(_, _)
CallerFrom(msgs, i) ==
    IF i = 0 THEN "unknown"
    ELSE IF msgs[i].type = "ai" /\ msgs[i].tool_calls # <<>> THEN msgs[i].name
         ELSE CallerFrom(msgs, i - 1)

\* Mutant: the caller is the first message with tool calls, not the most recent.
caller_earliest(msgs) ==
    LET S == {i \in DOMAIN msgs : msgs[i].type = "ai" /\ msgs[i].tool_calls # <<>>}
    IN IF S = {} THEN "unknown" ELSE msgs[CHOOSE i \in S : \A j \in S : i <= j].name

caller(msgs) == CallerFrom(msgs, Len(msgs))

\* for i in range(len(messages)-1, 0, -1): positions Len(msgs) down to 2 here.
RECURSIVE ChainFrom(_, _, _)
ChainFrom(msgs, i, c) ==
    IF i < 2 THEN 0
    ELSE IF msgs[i].type = "tool" /\ msgs[i-1].type = "ai" /\ msgs[i-1].name = c
         THEN 1 + ChainFrom(msgs, i - 1, c)
         ELSE IF msgs[i].type = "ai" /\ msgs[i].name # c
              THEN 0
              ELSE ChainFrom(msgs, i - 1, c)

tool_chain_count(msgs) == ChainFrom(msgs, Len(msgs), caller(msgs))

\* Mutant: handover only after more than two batches.
LoopLimitAtThree(count) == count >= 3

LoopLimitReached(count) == count >= 2

\* Mutant: plain ReAct loop, the results always return to the calling agent.
tool_router_no_guard(msgs) ==
    IF caller(msgs) = "Proponent" THEN "pro_agent"
    ELSE IF caller(msgs) = "Critic" THEN "con_agent"
    ELSE "moderator"

tool_router(msgs) ==
    IF LoopLimitReached(tool_chain_count(msgs)) THEN "moderator"
    ELSE IF caller(msgs) = "Proponent" THEN "pro_agent"
    ELSE IF caller(msgs) = "Critic" THEN "con_agent"
    ELSE "moderator"

(***************************************************************************)
(* event_generator: what it stores and yields for one update event.        *)
(***************************************************************************)
\* payload["data"] of a message.
PayloadData(msg) ==
    [role |-> IF msg.type = "ai" THEN "assistant" ELSE "tool",
     name |-> IF msg.type = "tool" THEN "Tool" ELSE msg.name,
     content |-> msg.content,
     tool_calls |-> msg.tool_calls,
     tool_call_id |-> msg.tool_call_id]

msg_type(msg) ==
    IF msg.type = "tool" THEN "tool_output"
    ELSE IF msg.type = "ai" /\ msg.tool_calls # <<>> THEN "tool_call"
    ELSE "message"

\* The messages of a node output that event_generator handles: the last one only.
HandledMessages(output) ==
    IF "messages" \in DOMAIN output /\ output.messages # <<>>
    THEN <<Last(output.messages)>>
    ELSE <<>>

MessageEvents(output) ==
    [j \in 1..Len(HandledMessages(output)) |->
        [type |-> msg_type(HandledMessages(output)[j]),
         data |-> PayloadData(HandledMessages(output)[j])]]

StatusEvents(output) ==
    IF "next_speaker" \in DOMAIN output
    THEN <<[type |-> "status", data |-> output.next_speaker]>>
    ELSE <<>>

\* storage.add_message for each handled message: read, append, write back.
add_messages_stored(conv, output) ==
    conv \o [j \in 1..Len(HandledMessages(output)) |-> PayloadData(HandledMessages(output)[j])]

UserMessage == [role |-> "user", name |-> "User", content |-> "topic",
                tool_calls |-> <<>>, tool_call_id |-> 0]

(***************************************************************************)
(* The run.                                                                *)
(***************************************************************************)
Configs == [max_rounds : 0..MaxRoundsBound, enable_tools : BOOLEAN]

\* send_message_stream up to the return of the StreamingResponse: the user
\* message is stored, the initial state is built, the graph starts at its
\* entry point.
Init ==
    /\ config \in Configs
    /\ messages = <<HumanMessage>>
    /\ round_count = 0
    /\ next_speaker = "moderator"
    /\ node = "moderator"
    /\ pending = <<>>
    /\ stored = <<UserMessage>>
    /\ events = <<>>
    /\ status = "running"
    /\ trace = <<>>
    /\ requests = <<>>
    /\ gone_at = -1

\* A node may start: the generator is alive (the client is connected, or its
\* disconnect has not reached the generator yet) and the previous update was
\* consumed.
CanRun(n) ==
    /\ status \in {"running", "gone"}
    /\ pending = <<>>
    /\ node = n
    /\ Len(messages) < MaxLog

\* Mutant: messages has no add_messages reducer, a patch overwrites the log.
MergeOverwrite(name, label, patch, edge) ==
    LET msgs == patch.messages
        ns == IF "next_speaker" \in DOMAIN patch THEN patch.next_speaker ELSE next_speaker
        rc == IF "round_count" \in DOMAIN patch THEN patch.round_count ELSE round_count
    IN /\ messages' = msgs
       /\ next_speaker' = ns
       /\ round_count' = rc
       /\ node' = IF edge = "router" THEN router(msgs, ns) ELSE tool_router(msgs)
       /\ pending' = <<[node |-> name, output |-> patch]>>
       /\ trace' = Append(trace, label)
       /\ UNCHANGED <<config, stored, events, status, requests, gone_at>>

\* The graph merges a node's patch (add_messages appends) and evaluates the
\* node's conditional edge on the merged state.
Merge(name, label, patch, edge) ==
    LET msgs == messages \o patch.messages
        ns == IF "next_speaker" \in DOMAIN patch THEN patch.next_speaker ELSE next_speaker
        rc == IF "round_count" \in DOMAIN patch THEN patch.round_count ELSE round_count
    IN /\ messages' = msgs
       /\ next_speaker' = ns
       /\ round_count' = rc
       /\ node' = IF edge = "router" THEN router(msgs, ns) ELSE tool_router(msgs)
       /\ pending' = <<[node |-> name, output |-> patch]>>
       /\ trace' = Append(trace, label)
       /\ UNCHANGED <<config, stored, events, status, requests, gone_at>>

moderator_node ==
    /\ CanRun("moderator")
    /\ Merge("moderator",
             moderator_branch(messages, round_count, config),
             moderator_patch(messages, round_count, config),
             "router")

pro_agent_node ==
    /\ CanRun("pro_agent")
    /\ \E k \in CallChoices(messages) :
          Merge("pro_agent", "pro_agent", agent_patch("Proponent", messages, k), "router")

con_agent_node ==
    /\ CanRun("con_agent")
    /\ \E k \in CallChoices(messages) :
          Merge("con_agent", "con_agent", agent_patch("Critic", messages, k), "router")

tools_node ==
    /\ CanRun("tools")
    /\ \E c \in ResultChoices(messages) :
          Merge("tools", "tools", tool_patch(messages, c), "tool_router")

\* Mutant: the exception is reported but the run is not aborted.
GenerationErrorSwallowed ==
    /\ status = "running"
    /\ pending = <<>>
    /\ node \in {"moderator", "pro_agent", "con_agent"}
    /\ events' = Append(events, [type |-> "error", data |-> node])
    /\ UNCHANGED <<messages, round_count, next_speaker, config, node, pending, stored,
                   status, trace, requests, gone_at>>

\* The generation call of a Moderator or agent node raises: the exception
\* leaves the graph and is caught by event_generator, which yields an error event.
GenerationError ==
    /\ status = "running"
    /\ pending = <<>>
    /\ node \in {"moderator", "pro_agent", "con_agent"}
    /\ status' = "error"
    /\ events' = Append(events, [type |-> "error", data |-> node])
    /\ UNCHANGED <<messages, round_count, next_speaker, config, node, pending, stored, trace,
                   requests, gone_at>>

\* Mutant: the payload is yielded without the add_message call.
StreamEventUnsaved ==
    /\ status = "running"
    /\ pending # <<>>
    /\ events' = events \o MessageEvents(pending[1].output) \o StatusEvents(pending[1].output)
    /\ pending' = <<>>
    /\ UNCHANGED <<messages, round_count, next_speaker, config, node, status, trace,
                   requests, gone_at, stored>>

\* The body of the astream loop for one update event.
StreamEvent ==
    /\ status = "running"
    /\ pending # <<>>
    /\ stored' = add_messages_stored(stored, pending[1].output)
    /\ events' = events \o MessageEvents(pending[1].output) \o StatusEvents(pending[1].output)
    /\ pending' = <<>>
    /\ UNCHANGED <<messages, round_count, next_speaker, config, node, status, trace,
                   requests, gone_at>>

\* astream is exhausted: the router returned END and the last update was consumed.
StreamComplete ==
    /\ status = "running"
    /\ pending = <<>>
    /\ node = "END"
    /\ status' = "complete"
    /\ events' = Append(events, [type |-> "complete", data |-> "END"])
    /\ UNCHANGED <<messages, round_count, next_speaker, config, node, pending, stored, trace,
                   requests, gone_at>>

NodeStep == moderator_node \/ pro_agent_node \/ con_agent_node \/ tools_node

Next == NodeStep \/ GenerationError \/ StreamEvent \/ StreamComplete

Spec == Init /\ [][Next]_vars

\* Every generation call and every tool invocation returns, and the event
\* loop keeps being scheduled.
NextReturns == NodeStep \/ StreamEvent \/ StreamComplete

SpecReturns == Init /\ [][NextReturns]_vars /\ WF_vars(NextReturns)

(***************************************************************************)
(* router and tool_router as functions of an arbitrary state: the log is   *)
(* any non-empty sequence of messages, well formed or not, and             *)
(* next_speaker any value.  node = "probe" until a router was applied; it  *)
(* then holds the returned edge and trace names the router.                *)
(***************************************************************************)
MaxProbeLen == 3

ProbeNames == {"", "Moderator", "Proponent", "Critic"}

ProbeMessages ==
    {HumanMessage, ToolMessage(1, "ok")}
       \cup {AIMessage(n, c) : n \in ProbeNames, c \in {<<>>, <<1>>}}

ProbeLogs == UNION {[1..n -> ProbeMessages] : n \in 1..MaxProbeLen}

ProbeSpeakers == {"moderator", "pro", "con", "finish", ""}

InitRouting ==
    /\ messages \in ProbeLogs
    /\ next_speaker \in ProbeSpeakers
    /\ round_count = 0
    /\ config = [max_rounds |-> 1, enable_tools |-> TRUE]
    /\ node = "probe"
    /\ pending = <<>>
    /\ stored = <<>>
    /\ events = <<>>
    /\ status = "running"
    /\ trace = <<>>
    /\ requests = <<>>
    /\ gone_at = -1

router_call ==
    /\ node = "probe"
    /\ node' = router(messages, next_speaker)
    /\ trace' = <<"router">>
    /\ UNCHANGED <<messages, round_count, next_speaker, config, pending, stored, events,
                   status, requests, gone_at>>

tool_router_call ==
    /\ node = "probe"
    /\ node' = tool_router(messages)
    /\ trace' = <<"tool_router">>
    /\ UNCHANGED <<messages, round_count, next_speaker, config, pending, stored, events,
                   status, requests, gone_at>>

NextRouting == router_call \/ tool_router_call

SpecRouting == InitRouting /\ [][NextRouting]_vars

(***************************************************************************)
(* moderator_node as a function of an arbitrary state: any non-empty log,  *)
(* any round_count and max_rounds up to MaxProbeRounds.  The state is left *)
(* as it was entered; pending holds the returned patch and trace the       *)
(* branch taken.                                                           *)
(***************************************************************************)
MaxProbeRounds == 2

InitModerator ==
    /\ messages \in ProbeLogs
    /\ next_speaker = "moderator"
    /\ round_count \in 0..MaxProbeRounds
    /\ config \in [max_rounds : 0..MaxProbeRounds, enable_tools : {TRUE}]
    /\ node = "probe"
    /\ pending = <<>>
    /\ stored = <<>>
    /\ events = <<>>
    /\ status = "running"
    /\ trace = <<>>
    /\ requests = <<>>
    /\ gone_at = -1

moderator_call ==
    /\ node = "probe"
    /\ node' = "moderator"
    /\ pending' = <<[node |-> "moderator",
                     output |-> moderator_patch(messages, round_count, config)]>>
    /\ trace' = <<moderator_branch(messages, round_count, config)>>
    /\ UNCHANGED <<messages, round_count, next_speaker, config, stored, events,
                   status, requests, gone_at>>

NextModerator == moderator_call

SpecModerator == InitModerator /\ [][NextModerator]_vars

(***************************************************************************)
(* The client of the stream disconnects.  event_generator has no handler   *)
(* for it (no finally, no shield, no disconnect poll): what happens is     *)
(* what the response does to the generator at its current suspension       *)
(* point.  While a node is in flight the generator is suspended in         *)
(* `async for event in graph_app.astream(...)`.  Either the response task  *)
(* is cancelled there (CancelledError is not an Exception, so the except   *)
(* clause does not catch it, and astream is cancelled with its node, whose *)
(* output never reaches add_message), or the disconnect goes unnoticed     *)
(* until the generator's next yield, which follows add_message.            *)
(***************************************************************************)
ClientDisconnect ==
    /\ status = "running"
    /\ pending = <<>>
    /\ node # "END"
    /\ gone_at' = Len(trace)
    /\ \/ status' = "cancelled"
       \/ status' = "gone"
    /\ UNCHANGED <<messages, round_count, next_speaker, config, node, pending, stored,
                   events, trace, requests>>

\* The loop body for the update of the node that was in flight: add_message
\* runs, then the yield fails and the generator is closed.
StreamEventSendFails ==
    /\ status = "gone"
    /\ pending # <<>>
    /\ stored' = add_messages_stored(stored, pending[1].output)
    /\ pending' = <<>>
    /\ status' = "cancelled"
    /\ UNCHANGED <<messages, round_count, next_speaker, config, node, events, trace,
                   requests, gone_at>>

NextDisconnect == Next \/ ClientDisconnect \/ StreamEventSendFails

SpecDisconnect == Init /\ [][NextDisconnect]_vars

(***************************************************************************)
(* Concurrent requests on one conversation id.  send_message_stream and    *)
(* its event_generator call storage.add_message once for the user message  *)
(* and once per streamed node message.  add_message is a plain function:   *)
(* get_conversation, the in-memory append and save_conversation run with   *)
(* no await between them, and every request runs on the one event loop of  *)
(* the process, which switches requests only where one is suspended.       *)
(* requests[r] is request r's position, the conversation it loaded and the *)
(* number of add_message calls it completed; stored is the file's message  *)
(* list; message <<r, i>> is the i-th message request r appends.           *)
(***************************************************************************)
Requests == {1, 2}

MaxAppends == 3

\* Where the event loop may switch away from a request.
SuspendedAnywhere(pc) == TRUE

Suspended(pc) == pc = "await"

\* The event loop is free for request r: no other request is mid-callback.
LoopFree(r) == \A q \in Requests \ {r} : Suspended(requests[q].pc)

InitStorage ==
    /\ messages = <<HumanMessage>>
    /\ round_count = 0
    /\ next_speaker = "moderator"
    /\ config = [max_rounds |-> 1, enable_tools |-> TRUE]
    /\ node = "moderator"
    /\ pending = <<>>
    /\ stored = <<>>
    /\ events = <<>>
    /\ status = "running"
    /\ trace = <<>>
    /\ gone_at = -1
    /\ requests = [r \in Requests |-> [pc |-> "await", conversation |-> <<>>, sent |-> 0]]

\* What a storage call leaves alone: the state of the debate graph and stream.
graph_state == <<messages, round_count, next_speaker, config, node, pending,
                 events, status, trace, gone_at>>

get_conversation(r) ==
    /\ LoopFree(r)
    /\ requests[r].pc = "await"
    /\ requests[r].sent < MaxAppends
    /\ requests' = [requests EXCEPT ![r].pc = "loaded", ![r].conversation = stored]
    /\ UNCHANGED <<stored, graph_state>>

add_message_append(r) ==
    /\ LoopFree(r)
    /\ requests[r].pc = "loaded"
    /\ requests' = [requests EXCEPT
                      ![r].pc = "appended",
                      ![r].conversation = Append(@, <<r, requests[r].sent + 1>>)]
    /\ UNCHANGED <<stored, graph_state>>

save_conversation(r) ==
    /\ LoopFree(r)
    /\ requests[r].pc = "appended"
    /\ stored' = requests[r].conversation
    /\ requests' = [requests EXCEPT ![r].pc = "await", ![r].sent = @ + 1]
    /\ UNCHANGED graph_state

NextStorage ==
    \E r \in Requests :
        get_conversation(r) \/ add_message_append(r) \/ save_conversation(r)

SpecStorage == InitStorage /\ [][NextStorage]_vars

(***************************************************************************)
(* Notions the properties are stated in, defined on the log alone.         *)
(***************************************************************************)
IsPrefix(s, t) == Len(s) <= Len(t) /\ SubSeq(t, 1, Len(s)) = s

Executed(label) == \E i \in DOMAIN trace : trace[i] = label

\* A node execution completes in this step (a failed one leaves trace alone).
NodeCompletes == trace' # trace

MaxOf(S) == CHOOSE i \in S : \A j \in S : j <= i

\* Sender of the most recent Proponent or Critic message ("none" without one).
MostRecentAgent(msgs) ==
    LET S == {i \in DOMAIN msgs : msgs[i].name \in {"Proponent", "Critic"}}
    IN IF S = {} THEN "none" ELSE msgs[MaxOf(S)].name

\* Position of the last Moderator or Human message: the current turn follows it.
TurnStart(msgs) ==
    LET S == {i \in DOMAIN msgs : msgs[i].type = "human" \/ msgs[i].name = "Moderator"}
    IN IF S = {} THEN 0 ELSE MaxOf(S)

\* (tool-calling agent message, tool results) pairs of the current turn: a
\* message that fans out several calls is one pair.
TurnPairs(msgs) ==
    Cardinality({i \in (TurnStart(msgs) + 1)..(Len(msgs) - 1) :
                    /\ msgs[i].type = "ai"
                    /\ msgs[i].tool_calls # <<>>
                    /\ msgs[i+1].type = "tool"})

ToolResults(msgs) == {i \in DOMAIN msgs : msgs[i].type = "tool"}

AgentCalls(msgs) ==
    {i \in DOMAIN msgs : /\ msgs[i].type = "ai"
                          /\ msgs[i].name \in {"Proponent", "Critic"}
                          /\ msgs[i].tool_calls # <<>>}

\* The (message, call) positions of the tool calls agents issued.
CallSites(msgs) ==
    UNION {{<<j, k>> : k \in DOMAIN msgs[j].tool_calls} : j \in AgentCalls(msgs)}

Answered(msgs, c) == \E i \in ToolResults(msgs) : msgs[i].tool_call_id = c

AllCallsAnswered(msgs) ==
    \A i \in DOMAIN msgs : \A k \in DOMAIN msgs[i].tool_calls :
        Answered(msgs, msgs[i].tool_calls[k])

\* The stored form of the engine's log after the Human message.
StoredFormOfLog(msgs) == [j \in 1..(Len(msgs) - 1) |-> PayloadData(msgs[j + 1])]

(***************************************************************************)
(* C1.  With enable_tools = false and max_rounds = 1 the run executes      *)
(* exactly Moderator(opening), Proponent, Moderator, Critic,               *)
(* Moderator(closing) and then terminates with round_count = 1.            *)
(* Stated as: the executed nodes are always a prefix of that sequence, and *)
(* at termination they are the whole of it.  The graph violates it.        *)
(***************************************************************************)
C1_Sequence == <<"opening", "pro_agent", "transition", "con_agent", "closing">>

C1_ToolsOffOneRoundSequence ==
    (~config.enable_tools /\ config.max_rounds = 1) =>
        /\ IsPrefix(trace, C1_Sequence)
        /\ (node = "END" =>
               trace = C1_Sequence /\ round_count = 1 /\ next_speaker = "finish")

(***************************************************************************)
(* C2.  Original statement: every Moderator execution entered with         *)
(* round_count >= max_rounds sets next_speaker = finish, and once finish   *)
(* is set no Proponent, Critic or tools node executes and next_speaker     *)
(* never changes.  Violated by the opening execution when max_rounds = 0.  *)
(***************************************************************************)
FinishIsTerminal ==
    next_speaker = "finish" =>
        /\ next_speaker' = "finish"
        /\ (NodeCompletes => Last(trace') \notin {"pro_agent", "con_agent", "tools"})

C2_Original ==
    [][ /\ (node = "moderator" /\ NodeCompletes /\ round_count >= config.max_rounds)
            => (next_speaker' = "finish" /\ pending'[1].output.next_speaker = "finish")
        /\ FinishIsTerminal ]_vars

(***************************************************************************)
(* C2 (amended).  Every Moderator execution entered with                   *)
(* round_count >= max_rounds on a log that is not the single Human message *)
(* sets next_speaker = finish; once finish is set no Proponent, Critic or  *)
(* tools node executes and next_speaker never changes.                     *)
(***************************************************************************)
C2_ClosingSetsFinish ==
    [][ /\ (/\ node = "moderator"
            /\ NodeCompletes
            /\ round_count >= config.max_rounds
            /\ ~(Len(messages) = 1 /\ messages[1].type = "human"))
            => (next_speaker' = "finish" /\ pending'[1].output.next_speaker = "finish")
        /\ FinishIsTerminal ]_vars

\* The closing summary was produced after at least one full round and the run ended.
C2_Witness ==
    /\ config.max_rounds >= 1
    /\ round_count >= config.max_rounds
    /\ next_speaker = "finish"
    /\ Last(trace) = "closing"
    /\ status = "complete"

(***************************************************************************)
(* C3.  round_count never decreases; it changes only in a Moderator        *)
(* execution, by exactly 1, and it does so if and only if that execution   *)
(* takes the transition branch with the Critic as the most recent agent    *)
(* speaker (next_speaker becomes pro).                                     *)
(***************************************************************************)
C3_RoundCountSteps ==
    [][ /\ round_count' \in {round_count, round_count + 1}
        /\ (round_count' = round_count + 1) <=>
              (/\ node = "moderator"
               /\ NodeCompletes
               /\ Last(trace') = "transition"
               /\ MostRecentAgent(messages) = "Critic")
        /\ (round_count' = round_count + 1 => next_speaker' = "pro") ]_vars

\* The Moderator has just counted a round after a Critic turn that ended by
\* forced tool-loop handover.
C3_Witness ==
    /\ round_count = 1
    /\ pending # <<>>
    /\ pending[1].node = "moderator"
    /\ Last(trace) = "transition"
    /\ messages[Len(messages) - 1].type = "tool"
    /\ MostRecentAgent(messages) = "Critic"

(***************************************************************************)
(* C4.  After every tools execution the tool-loop guard hands over to the  *)
(* Moderator exactly when the calling agent has 2 consecutive (call,       *)
(* results) pairs in the current turn: never at 1, and the count is never  *)
(* 3 or more.  A message fanning out several calls counts once.            *)
(***************************************************************************)
JustRanTools == pending # <<>> /\ pending[1].node = "tools"

C6_ToolResultsPaired ==
    LET sites == CallSites(messages) IN
    /\ \A i \in ToolResults(messages) :
          Cardinality({p \in sites : /\ p[1] < i
                                      /\ messages[p[1]].tool_calls[p[2]] = messages[i].tool_call_id})
             = 1
    /\ \A i, j \in ToolResults(messages) :
          messages[i].tool_call_id = messages[j].tool_call_id => i = j
    /\ node \in {"moderator", "pro_agent", "con_agent"} => AllCallsAnswered(messages)

\* The Proponent is about to continue its turn on a two-call fan-out, both answered.
C6_Witness ==
    /\ node = "pro_agent"
    /\ pending = <<>>
    /\ Len(messages) >= 3
    /\ Last(messages).type = "tool"
    /\ messages[Len(messages) - 1].type = "tool"
    /\ Len(messages[Len(messages) - 2].tool_calls) = 2

(***************************************************************************)
(* C7.  In a run configured with enable_tools = false no Proponent or      *)
(* Critic message carries tool calls and the tools node never executes.    *)
(* The agent nodes bind the tools unconditionally: violated.               *)
(***************************************************************************)
C7_NoToolsWhenDisabled ==
    ~config.enable_tools =>
        /\ \A i \in DOMAIN messages : messages[i].tool_calls = <<>>
        /\ ~Executed("tools")

(***************************************************************************)
(* C8.  Whatever the configuration, the first node executed is the         *)
(* Moderator in its opening branch: it appends one Moderator message and   *)
(* sets next_speaker = pro and round_count = 0, and the second node        *)
(* executed is the Proponent.                                              *)
(***************************************************************************)
C8_OpeningFirst ==
    /\ (trace = <<>> => node = "moderator" /\ messages = <<HumanMessage>>)
    /\ (Len(trace) >= 1 => trace[1] = "opening")
    /\ (Len(trace) = 1 =>
           /\ Len(messages) = 2
           /\ messages[2].type = "ai"
           /\ messages[2].name = "Moderator"
           /\ next_speaker = "pro"
           /\ round_count = 0
           /\ node = "pro_agent"
           /\ pending # <<>> =>
                 /\ pending[1].node = "moderator"
                 /\ pending[1].output.next_speaker = "pro"
                 /\ pending[1].output.round_count = 0
                 /\ Len(pending[1].output.messages) = 1)
    /\ (Len(trace) >= 2 => trace[2] = "pro_agent")

\* The Proponent ran second even with max_rounds = 0 and tools disabled.
C8_Witness ==
    /\ config.max_rounds = 0
    /\ ~config.enable_tools
    /\ Len(trace) = 2
    /\ trace[2] = "pro_agent"

(***************************************************************************)
(* C9.  A failing generation call in a Moderator, Proponent or Critic      *)
(* execution aborts the run: the failing node appends no message,          *)
(* round_count and next_speaker keep their values, nothing is stored, the  *)
(* stream ends with an error event, and no step follows (no retry, no      *)
(* further node, no complete event).                                       *)
(***************************************************************************)
C9_GenerationErrorAborts ==
    [][ /\ (status' = "error" /\ status # "error") =>
              /\ node \in {"moderator", "pro_agent", "con_agent"}
              /\ UNCHANGED <<messages, round_count, next_speaker, stored, trace, node>>
              /\ events' = Append(events, Last(events'))
              /\ Last(events').type = "error"
        /\ (node \in {"moderator", "pro_agent", "con_agent"} /\ ~NodeCompletes
            /\ status = "running" /\ pending = <<>>) => status' = "error"
        /\ status # "error" ]_vars

\* The Critic's generation call failed in the middle of a run.
C9_Witness ==
    /\ status = "error"
    /\ node = "con_agent"
    /\ Last(events).type = "error"
    /\ Last(trace) = "transition"

(***************************************************************************)
(* C10.  Every message a completed node execution appended to the log is   *)
(* delivered and stored, in order: whenever all updates are consumed, the  *)
(* stored messages after the user message are the log after the Human      *)
(* message.  The stream handles only the last message of a node output, so *)
(* a fan-out of k >= 2 tool results loses k - 1 of them: violated.         *)
(***************************************************************************)
C10_StoredEqualsLog ==
    pending = <<>> =>
        /\ stored = <<UserMessage>> \o StoredFormOfLog(messages)
        /\ Len(SelectSeq(events, LAMBDA e : e.type \in {"message", "tool_call", "tool_output"}))
              = Len(messages) - 1

(***************************************************************************)
(* C11.  Appends to the stored log of one conversation id are serialized:  *)
(* with two concurrent requests, each add_message being a read, an         *)
(* in-memory append and a write back, at most one request is ever inside   *)
(* add_message, and the stored log holds every appended message exactly    *)
(* once (no lost update).                                                  *)
(***************************************************************************)
Writers == {r \in Requests : requests[r].pc \in {"loaded", "appended"}}

Occurrences(m) == Cardinality({j \in DOMAIN stored : stored[j] = m})

C11_AppendsSerialized ==
    /\ Cardinality(Writers) <= 1
    /\ \A r \in Requests : \A i \in 1..requests[r].sent : Occurrences(<<r, i>>) = 1
    /\ \A j \in DOMAIN stored : stored[j][2] <= requests[stored[j][1]].sent

\* Both requests appended in alternation and finished at least two appends each.
C11_Witness ==
    /\ requests[1].sent >= 2
    /\ requests[2].sent >= 2
    /\ Len(stored) >= 4
    /\ stored[1] = <<1, 1>>
    /\ stored[2] = <<2, 1>>
    /\ stored[3] = <<1, 2>>

(***************************************************************************)
(* C12.  The run terminates only through the Moderator's closing branch:   *)
(* whenever the router has returned END, next_speaker = finish, the last   *)
(* node executed is the Moderator's closing, the last message of the log   *)
(* is its closing message, and round_count >= max_rounds.  No agent,       *)
(* tools, opening or transition execution is followed by termination.      *)
(***************************************************************************)
C12_EndOnlyAfterClosing ==
    node = "END" =>
        /\ next_speaker = "finish"
        /\ Last(trace) = "closing"
        /\ Last(messages).type = "ai"
        /\ Last(messages).name = "Moderator"
        /\ Last(messages).tool_calls = <<>>
        /\ round_count >= config.max_rounds

\* The router has just returned END after a closing that followed tool use.
C12_Witness ==
    /\ node = "END"
    /\ pending # <<>>
    /\ pending[1].node = "moderator"
    /\ config.max_rounds = 1
    /\ round_count = 1
    /\ Executed("tools")

(***************************************************************************)
(* C13.  If the client disappears while a node is in flight, that node     *)
(* finishes, the message it produced is stored, and no further node is     *)
(* executed after it.  Violated: when the response task is cancelled the   *)
(* in-flight node's output is discarded and never stored.                  *)
(***************************************************************************)
C13_InFlightNodeDurable ==
    gone_at >= 0 =>
        /\ Len(trace) <= gone_at + 1
        /\ status = "cancelled" =>
              /\ Len(trace) = gone_at + 1
              /\ pending = <<>>
              /\ Last(stored) = PayloadData(Last(messages))

(***************************************************************************)
(* C14.  Original statement: for every state whose most recent message has *)
(* an unrecognized sender and whose log holds no agent message, router     *)
(* returns moderator, and tool_router returns moderator when it identifies *)
(* no agent as the caller.  Violated by router when next_speaker is pro,   *)
(* con or finish, or when the message carries tool calls.                  *)
(***************************************************************************)
Agents == {"Proponent", "Critic"}

Unrecognized(m) == m.name \notin {"Moderator", "Proponent", "Critic"}

NoAgentMessage(msgs) == \A i \in DOMAIN msgs : msgs[i].name \notin Agents

ToolRouterDefaults ==
    (trace = <<"tool_router">> /\ caller(messages) \notin Agents) => node = "moderator"

C14_Original ==
    (Unrecognized(Last(messages)) /\ NoAgentMessage(messages)) =>
        /\ trace = <<"router">> => node = "moderator"
        /\ ToolRouterDefaults

(***************************************************************************)
(* C14 (amended).  For every state whose most recent message has an        *)
(* unrecognized sender and carries no tool calls, whose log holds no agent *)
(* message and whose next_speaker is none of pro, con and finish, router   *)
(* returns moderator; and tool_router returns moderator whenever the       *)
(* caller it identifies is neither the Proponent nor the Critic.  Neither  *)
(* raises an error.                                                        *)
(***************************************************************************)
C14_DefaultsToModerator ==
    /\ node \in {"probe", "tools", "moderator", "pro_agent", "con_agent", "END"}
    /\ (/\ Unrecognized(Last(messages))
        /\ NoAgentMessage(messages)
        /\ Last(messages).tool_calls = <<>>
        /\ next_speaker \notin {"pro", "con", "finish"}
        /\ trace = <<"router">>) => node = "moderator"
    /\ ToolRouterDefaults

\* router was applied to a log ending in a message with an empty name.
C14_Witness ==
    /\ trace = <<"router">>
    /\ Len(messages) = 2
    /\ Last(messages).name = ""
    /\ Last(messages).tool_calls = <<>>
    /\ NoAgentMessage(messages)
    /\ next_speaker = ""
    /\ node = "moderator"

(***************************************************************************)
(* C19.  router is total and decides in this order: (1) the last message   *)
(* carries tool calls: tools, whatever next_speaker is; (2) else its       *)
(* sender is the Proponent or the Critic: moderator, whatever next_speaker *)
(* is; (3) else pro_agent, con_agent, END for next_speaker pro, con,       *)
(* finish, and moderator for any other value.                              *)
(***************************************************************************)
C19_RouterOrder ==
    trace = <<"router">> =>
        LET last == Last(messages) IN
        /\ node \in {"tools", "moderator", "pro_agent", "con_agent", "END"}
        /\ last.tool_calls # <<>> => node = "tools"
        /\ (last.tool_calls = <<>> /\ last.name \in Agents) => node = "moderator"
        /\ (last.tool_calls = <<>> /\ last.name \notin Agents) =>
              /\ next_speaker = "pro" => node = "pro_agent"
              /\ next_speaker = "con" => node = "con_agent"
              /\ next_speaker = "finish" => node = "END"
              /\ next_speaker \notin {"pro", "con", "finish"} => node = "moderator"

\* An agent message without tool calls went to the Moderator although
\* next_speaker was finish.
C19_Witness ==
    /\ trace = <<"router">>
    /\ Last(messages).name = "Critic"
    /\ Last(messages).tool_calls = <<>>
    /\ next_speaker = "finish"
    /\ node = "moderator"

(***************************************************************************)
(* C15 is a statement about pairs of runs (same inputs, same outputs); it  *)
(* has no formula here.                                                    *)
(***************************************************************************)

(***************************************************************************)
(* C16.  The log is append-only and grows with every node execution: no    *)
(* step edits, reorders or removes a message; a Moderator or agent         *)
(* execution appends exactly one message, a tools execution one message    *)
(* per tool call of the message it answers (at least one); a step that     *)
(* completes no node leaves the log alone.                                 *)
(***************************************************************************)
C16_LogAppendOnly ==
    [][ /\ IsPrefix(messages, messages')
        /\ ~NodeCompletes => messages' = messages
        /\ NodeCompletes =>
              /\ Len(messages') > Len(messages)
              /\ Last(trace') # "tools" => Len(messages') = Len(messages) + 1
              /\ Last(trace') = "tools" =>
                    Len(messages') = Len(messages) + Len(Last(messages).tool_calls) ]_vars

\* A tools execution has just appended two results to a log of three messages.
C16_Witness ==
    /\ trace # <<>>
    /\ Last(trace) = "tools"
    /\ pending # <<>>
    /\ Len(pending[1].output.messages) = 2
    /\ Len(messages) = 5
    /\ messages[3].name = "Proponent"

(***************************************************************************)
(* C17.  A failing tool is not a failing node: a tools execution appends   *)
(* one ToolResult per pending call, carrying that call's id and either the *)
(* result or the error text; the run is not aborted; and the edge taken    *)
(* after it is the one taken had every tool succeeded.                     *)
(***************************************************************************)
AllSucceeded(msgs) ==
    [i \in DOMAIN msgs |->
        IF msgs[i].type = "tool" THEN [msgs[i] EXCEPT !.content = "ok"] ELSE msgs[i]]

C17_ToolErrorIsResult ==
    [][ (NodeCompletes /\ Last(trace') = "tools") =>
            LET calls == Last(messages).tool_calls
                out == pending'[1].output.messages
            IN /\ Len(out) = Len(calls)
               /\ messages' = messages \o out
               /\ \A j \in DOMAIN calls :
                     /\ out[j].type = "tool"
                     /\ out[j].tool_call_id = calls[j]
                     /\ out[j].content \in {"ok", "err"}
               /\ status' = status
               /\ node' = tool_router(AllSucceeded(messages'))
               /\ node' \in {"pro_agent", "con_agent", "moderator"} ]_vars

\* The Critic's tool call failed; the Critic is about to continue its turn.
C17_Witness ==
    /\ pending # <<>>
    /\ pending[1].node = "tools"
    /\ Last(messages).content = "err"
    /\ status = "running"
    /\ node = "con_agent"

(***************************************************************************)
(* C18.  In every reachable state of a run with max_rounds >= 1,           *)
(* 0 <= round_count <= max_rounds, and the number of Critic turns taken    *)
(* (hence of completed ones) never exceeds max_rounds.                     *)
(***************************************************************************)
\* Critic turns: Critic messages that directly follow a Moderator message.
CriticTurns(msgs) ==
    Cardinality({i \in 2..Len(msgs) :
                    msgs[i].name = "Critic" /\ msgs[i-1].name = "Moderator"})

C18_RoundsBounded ==
    config.max_rounds >= 1 =>
        /\ 0 <= round_count
        /\ round_count <= config.max_rounds
        /\ CriticTurns(messages) <= config.max_rounds

\* A finished run that used all its rounds.
C18_Witness ==
    /\ config.max_rounds >= 1
    /\ round_count = config.max_rounds
    /\ CriticTurns(messages) = config.max_rounds
    /\ status = "complete"
    /\ ~Executed("tools")

(***************************************************************************)
(* C20.  In the Moderator's transition branch the next speaker is the      *)
(* opposite of the most recent agent speaker, found by scanning backward   *)
(* past the trailing ToolResult messages: Proponent gives con with         *)
(* round_count unchanged, Critic gives pro with round_count + 1.  After a  *)
(* forced tool-loop handover (the log ends in a ToolResult) the agent that *)
(* issued the calls is resolved and the same mapping applies.              *)
(***************************************************************************)
\* Sender of the last message that is not a ToolResult.
SpeakerBeforeResults(msgs) ==
    msgs[MaxOf({i \in DOMAIN msgs : msgs[i].type # "tool"})].name

C20_TransitionAlternates ==
    [][ (NodeCompletes /\ Last(trace') = "transition") =>
            LET a == SpeakerBeforeResults(messages)
                patch == pending'[1].output
            IN /\ a \in Agents
               /\ a = MostRecentAgent(messages)
               /\ a = "Proponent" =>
                     /\ next_speaker' = "con"
                     /\ round_count' = round_count
               /\ a = "Critic" =>
                     /\ next_speaker' = "pro"
                     /\ round_count' = round_count + 1
               /\ patch.next_speaker = next_speaker'
               /\ patch.round_count = round_count' ]_vars

\* The Proponent was forced to hand over after two tool batches; the
\* Moderator has just given the floor to the Critic.
C20_Witness ==
    /\ pending # <<>>
    /\ pending[1].node = "moderator"
    /\ Last(trace) = "transition"
    /\ messages[Len(messages) - 1].type = "tool"
    /\ MostRecentAgent(messages) = "Proponent"
    /\ next_speaker = "con"
    /\ round_count = 0

(***************************************************************************)
(* C21.  Original statement: for every log, well formed or not, entered    *)
(* with round_count < max_rounds in which no Proponent or Critic message   *)
(* is resolved as the last speaker, the Moderator returns a patch with     *)
(* next_speaker = pro if round_count = 0 and con otherwise, round_count    *)
(* unchanged.  Violated by the log of one Human message entered with       *)
(* round_count >= 1: the opening branch answers pro and round_count 0.     *)
(***************************************************************************)
\* No agent is resolved as the last speaker: the log holds no agent message,
\* or its last message is neither a tool result nor an agent's.
SenderUnresolved(msgs) ==
    \/ NoAgentMessage(msgs)
    \/ (Last(msgs).type # "tool" /\ Last(msgs).name \notin Agents)

FallbackPatch(patch) ==
    /\ DOMAIN patch = {"messages", "next_speaker", "round_count"}
    /\ Len(patch.messages) = 1
    /\ patch.next_speaker = IF round_count = 0 THEN "pro" ELSE "con"
    /\ patch.round_count = round_count

ModeratorLabels == {"opening", "transition", "closing"}

\* Position in trace of the last Moderator execution (0 before the first).
LastModeratorStep == MaxOf({0} \cup {i \in DOMAIN trace : trace[i] \in ModeratorLabels})

\* Executions with a label of L since the last Moderator execution.
InTurn(L) ==
    LET m == LastModeratorStep
    IN Cardinality({i \in (m + 1)..Len(trace) : trace[i] \in L})

NodeOf(agent) == IF agent = "Proponent" THEN "pro_agent" ELSE "con_agent"

\* The last message is a ToolResult answering a tool call of the given agent.
AnswersCallOf(msgs, agent) ==
    /\ Last(msgs).type = "tool"
    /\ \E i \in DOMAIN msgs :
          /\ msgs[i].name = agent
          /\ \E k \in DOMAIN msgs[i].tool_calls :
                msgs[i].tool_calls[k] = Last(msgs).tool_call_id

C23_ResultsReturnToCaller ==
    /\ (JustRanTools /\ node # "moderator") =>
          LET issuer == messages[Len(messages) - Len(pending[1].output.messages)]
          IN /\ issuer.name \in Agents
             /\ node = NodeOf(issuer.name)
    /\ \A a \in Agents :
          node = NodeOf(a) =>
             \/ Last(messages).name = "Moderator"
             \/ AnswersCallOf(messages, a)

\* The Critic is about to continue on its own results after the Proponent
\* had used a tool earlier in the run.
C23_Witness ==
    /\ node = "con_agent"
    /\ pending = <<>>
    /\ AnswersCallOf(messages, "Critic")
    /\ \E i \in DOMAIN messages :
          messages[i].name = "Proponent" /\ messages[i].tool_calls # <<>>

(***************************************************************************)
(* C24.  Only the Moderator changes routing state: the patch of a          *)
(* Proponent, Critic or tools execution holds appended messages only and   *)
(* leaves next_speaker and round_count as they were; no node's patch, the  *)
(* Moderator's included, has a config key, and config never changes.       *)
(***************************************************************************)
C24_OnlyModeratorRoutes ==
    [][ /\ config' = config
        /\ (next_speaker' # next_speaker \/ round_count' # round_count) =>
              (NodeCompletes /\ Last(trace') \in ModeratorLabels)
        /\ NodeCompletes =>
              /\ "config" \notin DOMAIN pending'[1].output
              /\ Last(trace') \notin ModeratorLabels =>
                    DOMAIN pending'[1].output = {"messages"} ]_vars

\* The tools node has just run in the Critic's turn of round 0: the routing
\* state is still the one the Moderator set.
C24_Witness ==
    /\ JustRanTools
    /\ DOMAIN pending[1].output = {"messages"}
    /\ next_speaker = "con"
    /\ round_count = 0
    /\ Len(trace) >= 5

(***************************************************************************)
(* C25.  Agent turns strictly alternate Proponent, Critic, Proponent, ...  *)
(* starting with the Proponent, and exactly one Moderator execution        *)
(* separates two consecutive agent turns, whether a turn ends with prose   *)
(* or by forced tool-loop handover.  On the executed nodes: an agent       *)
(* execution after the k-th Moderator execution is the Proponent's for odd *)
(* k and the Critic's for even k; no two Moderator executions are          *)
(* adjacent; tools executions directly follow an agent execution.          *)
(***************************************************************************)
AgentLabels == {"pro_agent", "con_agent"}

ModeratorRunsBefore(i) ==
    Cardinality({j \in 1..(i - 1) : trace[j] \in ModeratorLabels})

C25_TurnsAlternate ==
    [](\A i \in DOMAIN trace :
          /\ trace[i] \in AgentLabels =>
                LET k == ModeratorRunsBefore(i)
                IN /\ k >= 1
                   /\ trace[i] = IF k % 2 = 1 THEN "pro_agent" ELSE "con_agent"
          /\ (trace[i] \in ModeratorLabels /\ i > 1) => trace[i-1] \notin ModeratorLabels
          /\ trace[i] = "tools" => (i > 1 /\ trace[i-1] \in AgentLabels))

\* The Proponent's turn ended by forced handover, the Critic's with prose,
\* and the Proponent has the floor again.
C25_Witness ==
    /\ Len(trace) >= 9
    /\ trace[5] = "tools"
    /\ trace[6] = "transition"
    /\ trace[7] = "con_agent"
    /\ trace[8] = "transition"
    /\ trace[9] = "pro_agent"

(***************************************************************************)
(* C26.  In every run with max_rounds = N >= 1 that reaches the terminal   *)
(* state, the Critic has completed exactly N turns, the Proponent exactly  *)
(* N + 1, the Moderator node has executed exactly 2N + 2 times, and the    *)
(* last agent turn before the closing summary is the Proponent's.          *)
(***************************************************************************)
\* Turns of an agent node: its executions that directly follow a Moderator's.
TurnsOf(label) ==
    Cardinality({i \in 2..Len(trace) :
                    trace[i] = label /\ trace[i-1] \in ModeratorLabels})

ModeratorRuns == Cardinality({i \in DOMAIN trace : trace[i] \in ModeratorLabels})

C26_TurnCountsAtEnd ==
    (node = "END" /\ config.max_rounds >= 1) =>
        /\ TurnsOf("con_agent") = config.max_rounds
        /\ TurnsOf("pro_agent") = config.max_rounds + 1
        /\ ModeratorRuns = 2 * config.max_rounds + 2
        /\ MostRecentAgent(messages) = "Proponent"
        /\ Last(trace) = "closing"

\* A run of one round ended after two Proponent turns and one Critic turn,
\* the last Proponent turn ending by forced handover.
C26_Witness ==
    /\ node = "END"
    /\ config.max_rounds = 1
    /\ TurnsOf("pro_agent") = 2
    /\ TurnsOf("con_agent") = 1
    /\ messages[Len(messages) - 1].type = "tool"

(***************************************************************************)
(* C27.  Every stream ends with exactly one final event: complete if and   *)
(* only if the run reached the terminal state without an exception, error  *)
(* otherwise.  No event follows the final event (so no message after it    *)
(* and no complete after an error), the stream does not stop without one,  *)
(* and every message event yielded was appended to storage before it was   *)
(* yielded: the stored messages after the user's are the data of the       *)
(* message events, in order.                                               *)
(***************************************************************************)
FinalEvents == {i \in DOMAIN events : events[i].type \in {"complete", "error"}}

IsMessageEvent(e) == e.type \in {"message", "tool_call", "tool_output"}

YieldedData ==
    LET ms == SelectSeq(events, IsMessageEvent)
    IN [j \in 1..Len(ms) |-> ms[j].data]

C27_OneFinalEvent ==
    [](/\ Cardinality(FinalEvents) <= 1
       /\ \A i \in FinalEvents : i = Len(events)
       /\ status = "complete" <=> (events # <<>> /\ Last(events).type = "complete")
       /\ status = "error" <=> (events # <<>> /\ Last(events).type = "error")
       /\ status = "complete" => (node = "END" /\ pending = <<>>)
       /\ status = "error" => (node # "END" /\ pending = <<>>)
       /\ status = "running" => ENABLED Next
       /\ stored = <<UserMessage>> \o YieldedData)

\* A completed stream that delivered tool output along the way.
C27_Witness ==
    /\ status = "complete"
    /\ Last(events).type = "complete"
    /\ \E i \in DOMAIN events : events[i].type = "tool_output"
    /\ Len(stored) >= 6

====
